---- MODULE Spec2Model ----
(***************************************************************************)
(* A model of the PPL interpreter of src/main.cpp.                         *)
(*                                                                         *)
(* Three specifications share the variables and the instruction semantics: *)
(*                                                                         *)
(*   Spec      the whole process: main() loads the source file line by     *)
(*             line (load_program, parse_line), then run_program executes  *)
(*             the loaded program, prints the report and main returns.     *)
(*             The lines of the file are inputs drawn from SrcLines.       *)
(*                                                                         *)
(*   SpecExec  run_program on a program that loaded successfully.  The     *)
(*             loaded program is not kept in the state: control only moves *)
(*             forward in this specification (IF targets are drawn above   *)
(*             pc), so no line is fetched twice and drawing an instruction *)
(*             when it is fetched is the same as drawing the whole program *)
(*             before the run.  This allows long programs over a full      *)
(*             instruction set.                                            *)
(*                                                                         *)
(*   SpecCountdown  run_program on the countdown loop, loaded from its     *)
(*             source, under the fairness of a process that runs on.       *)
(*                                                                         *)
(* A token is a sequence of one-character strings, a line a sequence of    *)
(* tokens.  long long and int are modelled with LLBits and IntBits bits.   *)
(***************************************************************************)
EXTENDS Integers, Sequences, FiniteSets, TLC

VARIABLES
    prog,      \* vector<Instruction*> prog: the instructions loaded so far
    lines,     \* run_program's lines, (int)prog.size()
    status,    \* where the process is: Loading, Running, Halted, Failed, LoadError, Trapped
    pc,        \* run_program's pc (1-based)
    table,     \* Env::table: identifier -> Value
    heap,      \* the live ListNode objects: node id -> [v, next]
    nalloc,    \* the number of ListNode objects created so far (the newest id)
    cerr,      \* the lines written to the error stream
    cout,      \* the lines written to standard output
    exitCode   \* <<c>> once main returned c, <<>> before

vars == <<prog, lines, status, pc, table, heap, nalloc, cerr, cout, exitCode>>

----------------------------------------------------------------------------
(* Bounds *)

\* the width of long long in the model (64 in the build); two bits wider
\* than int, so that a literal can exceed twice the range of int
LLBits == 6
\* the width of int in the model (32 in the build)
IntBits == 4
\* the longest source file Spec reads
MaxSrcLines == 3
\* the longest program SpecExec runs
MaxExecLines == 5
\* the most ListNode objects one run creates
MaxNodes == 5
\* the greatest value the countdown starts from
MaxCount == 12

RECURSIVE Pow2(_)
Pow2(n) == IF n = 0 THEN 1 ELSE 2 * Pow2(n - 1)

LLMin == -Pow2(LLBits - 1)
LLMax == Pow2(LLBits - 1) - 1
IntMin == -Pow2(IntBits - 1)
IntMax == Pow2(IntBits - 1) - 1

\* two's-complement reduction of n to w bits
Wrap(n, w) == ((n + Pow2(w - 1)) % Pow2(w)) - Pow2(w - 1)

\* (int)v of a long long v
CastInt(v) == Wrap(v, IntBits)

----------------------------------------------------------------------------
(* Characters and tokens *)

Digits == <<"0", "1", "2", "3", "4", "5", "6", "7", "8", "9">>
Upper == <<"A", "B", "C", "D", "E", "F", "G", "H", "I", "J", "K", "L", "M",
           "N", "O", "P", "Q", "R", "S", "T", "U", "V", "W", "X", "Y", "Z">>
Lower == <<"a", "b", "c", "d", "e", "f", "g", "h", "i", "j", "k", "l", "m",
           "n", "o", "p", "q", "r", "s", "t", "u", "v", "w", "x", "y", "z">>

\* the characters of the model in the order of their character codes
AsciiOrder == <<" ", "$", "+", ",", "-">> \o Digits \o <<"=">> \o Upper
                \o <<"[", "]", "_">> \o Lower

Range(s) == {s[i] : i \in DOMAIN s}

CharCode(c) == CHOOSE i \in DOMAIN AsciiOrder : AsciiOrder[i] = c

isdigit(c) == c \in Range(Digits)
isalpha(c) == c \in Range(Upper) \cup Range(Lower)
isalnum(c) == isalpha(c) \/ isdigit(c)

DigitVal(c) == (CHOOSE i \in DOMAIN Digits : Digits[i] = c) - 1

\* std::string operator<
StrLess(s, t) ==
    \E i \in 1..(Len(s) + 1) :
        /\ i <= Len(t)
        /\ \A j \in 1..(i - 1) : s[j] = t[j]
        /\ \/ i = Len(s) + 1
           \/ CharCode(s[i]) < CharCode(t[i])

\* std::to_string(long long)
RECURSIVE DigitsOf(_)
DigitsOf(n) == IF n < 10 THEN <<Digits[n + 1]>>
               ELSE DigitsOf(n \div 10) \o <<Digits[(n % 10) + 1]>>

to_string(n) == IF n < 0 THEN <<"-">> \o DigitsOf(-n) ELSE DigitsOf(n)

----------------------------------------------------------------------------
(* Value model *)

Null == 0

make_int(v) == [type |-> "VT_INT", ival |-> v, list |-> Null]
make_list(l) == [type |-> "VT_LIST", ival |-> 0, list |-> l]

\* ListNode(val, nx)
ListNode(val, nx) == [v |-> val, next |-> nx]

\* make_shared<ListNode>(val, nx): the heap with the new node, whose id is n + 1
Alloc(h, n, val, nx) == h @@ ((n + 1) :> ListNode(val, nx))

RECURSIVE deep_copy(_, _, _), CopyChain(_, _, _)
\* Value::deep_copy of v in heap h after n allocations: [h, n, v], the heap, the
\* allocation count and the copy.  The value built at lines 51-52 is kept for
\* an Int element and replaced by line 54 for a List element (its temporary
\* nodes die at once), so each element's copy is its deep_copy.
deep_copy(h, n, v) ==
    IF v.type = "VT_INT" THEN [h |-> h, n |-> n, v |-> make_int(v.ival)]
    ELSE IF v.list = Null THEN [h |-> h, n |-> n, v |-> make_list(Null)]
    ELSE LET r == CopyChain(h, n, v.list)
         IN  [h |-> r.h, n |-> r.n, v |-> make_list(r.head)]

\* the loop of deep_copy (lines 50-58) and of TAIL (lines 222-228): a new chain
\* with a deep copy of every element from node cur on: [h, n, head]
CopyChain(h, n, cur) ==
    IF cur = Null THEN [h |-> h, n |-> n, head |-> Null]
    ELSE LET e == deep_copy(h, n, h[cur].v)
             id == e.n + 1
             rest == CopyChain(e.h @@ (id :> ListNode(e.v, Null)), id, h[cur].next)
         IN  [h |-> [rest.h EXCEPT ![id].next = rest.head], n |-> rest.n, head |-> id]

\* the nodes node n points to: its next and the head of the list it holds
Succ(h, n) ==
    {h[n].next, IF h[n].v.type = "VT_LIST" THEN h[n].v.list ELSE Null} \ {Null}

\* the nodes reached from those of S
RECURSIVE Reach(_, _)
Reach(h, S) ==
    LET T == S \cup UNION {Succ(h, n) : n \in S}
    IN  IF T = S THEN S ELSE Reach(h, T)

\* the nodes of the chain from node cur on, with those of nested lists
ChainNodes(h, cur) == IF cur = Null THEN {} ELSE Reach(h, {cur})

ValueNodes(h, v) == IF v.type = "VT_LIST" THEN ChainNodes(h, v.list) ELSE {}

\* shared_ptr: a node no binding reaches any more is destroyed
Collect(t, h) ==
    LET live == UNION {ValueNodes(h, t[id]) : id \in DOMAIN t}
    IN  [n \in live |-> h[n]]

RECURSIVE list_to_string_from(_, _, _)
RECURSIVE value_to_string(_, _)
\* the loop of list_to_string from node cur on
list_to_string_from(h, cur, first) ==
    IF cur = Null THEN <<>>
    ELSE (IF first THEN <<>> ELSE <<",", " ">>)
         \o value_to_string(h, h[cur].v)
         \o list_to_string_from(h, h[cur].next, FALSE)

list_to_string(h, head) ==
    IF head = Null THEN <<"[", "]">>
    ELSE <<"[">> \o list_to_string_from(h, head, TRUE) \o <<"]">>

value_to_string(h, val) ==
    IF val.type = "VT_INT" THEN to_string(val.ival)
    ELSE list_to_string(h, val.list)

----------------------------------------------------------------------------
(* Environment *)

exists(t, id) == id \in DOMAIN t

\* Env::set: table[id] = v
set(t, id, v) == [x \in DOMAIN t \cup {id} |-> IF x = id THEN v ELSE t[x]]

----------------------------------------------------------------------------
(* Instructions *)

NoId == <<>>

\* the Instruction objects: op names the class, lineNo the source line, x and
\* y the identifier operands in the constructor's order, k the number
\* (Instr_ASSIGN::val, Instr_IF::target)
Instr(op, l, x, y, k) == [op |-> op, lineNo |-> l, x |-> x, y |-> y, k |-> k]

Instr_INTEGER(l, id) == Instr("INTEGER", l, id, NoId, 0)
Instr_LIST(l, id) == Instr("LIST", l, id, NoId, 0)
Instr_MERGE(l, a, b) == Instr("MERGE", l, a, b, 0)
Instr_COPY(l, a, b) == Instr("COPY", l, a, b, 0)
Instr_HEAD(l, listid, id) == Instr("HEAD", l, listid, id, 0)
Instr_TAIL(l, a, b) == Instr("TAIL", l, a, b, 0)
Instr_ASSIGN(l, id, v) == Instr("ASSIGN", l, id, NoId, v)
Instr_CHS(l, id) == Instr("CHS", l, id, NoId, 0)
Instr_ADD(l, a, b) == Instr("ADD", l, a, b, 0)
Instr_IF(l, id, target) == Instr("IF", l, id, NoId, target)
Instr_HLT(l) == Instr("HLT", l, NoId, NoId, 0)
NOP(l) == Instr("NOP", l, NoId, NoId, 0)

\* what execute does: it returns the next line with the environment it
\* leaves, it throws runtime_error("Line <line>: <text><arg>"), or, where the
\* arithmetic overflows (undefined behaviour), the build may trap
Return(nxt, t, h, n) ==
    [kind |-> "return", next |-> nxt, table |-> t, heap |-> h, nalloc |-> n,
     what |-> <<>>]
Throw(ins, text, arg, t, h, n) ==
    [kind |-> "throw", next |-> 0, table |-> t, heap |-> h, nalloc |-> n,
     what |-> [line |-> ins.lineNo, text |-> text, arg |-> arg]]
Trap(t, h, n) ==
    [kind |-> "trap", next |-> 0, table |-> t, heap |-> h, nalloc |-> n,
     what |-> <<>>]

\* Each execute below is the set of the outcomes of the instruction ins in
\* the environment t with the heap h after n allocations, at line p of a
\* program of size lines.

\* INTEGER that refuses only a name bound to an Int
INTEGER_execute_typed(ins, t, h, n, p, size) ==
    IF exists(t, ins.x) /\ t[ins.x].type = "VT_INT"
    THEN {Throw(ins, "Identifier already declared", ins.x, t, h, n)}
    ELSE {Return(p + 1, set(t, ins.x, make_int(0)), h, n)}

INTEGER_execute(ins, t, h, n, p, size) ==
    IF exists(t, ins.x)
    THEN {Throw(ins, "Identifier already declared", ins.x, t, h, n)}
    ELSE {Return(p + 1, set(t, ins.x, make_int(0)), h, n)}

LIST_execute(ins, t, h, n, p, size) ==
    IF exists(t, ins.x)
    THEN {Throw(ins, "Identifier already declared", ins.x, t, h, n)}
    ELSE {Return(p + 1, set(t, ins.x, make_list(Null)), h, n)}

\* MERGE that copies the old chain instead of sharing it
MERGE_execute_copying(ins, t, h, n, p, size) ==
    IF ~exists(t, ins.x) THEN {Throw(ins, "Undefined identifier", ins.x, t, h, n)}
    ELSE IF ~exists(t, ins.y)
    THEN {Throw(ins, "Undefined list identifier", ins.y, t, h, n)}
    ELSE LET vfrom == deep_copy(h, n, t[ins.x])
             target == t[ins.y]
         IN  IF target.type # "VT_LIST"
             THEN {Throw(ins, "MERGE target is not a list", ins.y, t, h, n)}
             ELSE LET old == deep_copy(vfrom.h, vfrom.n, target)
                      newhead == old.n + 1
                  IN  {Return(p + 1, set(t, ins.y, make_list(newhead)),
                              Alloc(old.h, old.n, vfrom.v, old.v.list), newhead)}

\* MERGE that puts the new list itself, not a copy of src, in the new head
MERGE_execute_selfref(ins, t, h, n, p, size) ==
    IF ~exists(t, ins.x) THEN {Throw(ins, "Undefined identifier", ins.x, t, h, n)}
    ELSE IF ~exists(t, ins.y)
    THEN {Throw(ins, "Undefined list identifier", ins.y, t, h, n)}
    ELSE LET target == t[ins.y]
         IN  IF target.type # "VT_LIST"
             THEN {Throw(ins, "MERGE target is not a list", ins.y, t, h, n)}
             ELSE LET old == target.list
                      newhead == n + 1
                  IN  {Return(p + 1, set(t, ins.y, make_list(newhead)),
                              Alloc(h, n, make_list(newhead), old), newhead)}

\* MERGE that also writes into the node that was the head of the list
MERGE_execute_inplace(ins, t, h, n, p, size) ==
    IF ~exists(t, ins.x) THEN {Throw(ins, "Undefined identifier", ins.x, t, h, n)}
    ELSE IF ~exists(t, ins.y)
    THEN {Throw(ins, "Undefined list identifier", ins.y, t, h, n)}
    ELSE LET vfrom == deep_copy(h, n, t[ins.x])
             target == t[ins.y]
         IN  IF target.type # "VT_LIST"
             THEN {Throw(ins, "MERGE target is not a list", ins.y, t, h, n)}
             ELSE LET old == target.list
                      newhead == vfrom.n + 1
                      h2 == Alloc(vfrom.h, vfrom.n, vfrom.v, old)
                  IN  {Return(p + 1, set(t, ins.y, make_list(newhead)),
                              IF old = Null THEN h2
                              ELSE [h2 EXCEPT ![old].v = make_int(0)], newhead)}

MERGE_execute(ins, t, h, n, p, size) ==
    IF ~exists(t, ins.x) THEN {Throw(ins, "Undefined identifier", ins.x, t, h, n)}
    ELSE IF ~exists(t, ins.y)
    THEN {Throw(ins, "Undefined list identifier", ins.y, t, h, n)}
    ELSE LET vfrom == deep_copy(h, n, t[ins.x])
             target == t[ins.y]
         IN  IF target.type # "VT_LIST"
             THEN {Throw(ins, "MERGE target is not a list", ins.y, t, h, n)}
             ELSE LET old == target.list
                      newhead == vfrom.n + 1
                  IN  {Return(p + 1, set(t, ins.y, make_list(newhead)),
                              Alloc(vfrom.h, vfrom.n, vfrom.v, old), newhead)}

\* COPY that binds dst to the nodes of src
COPY_execute_shallow(ins, t, h, n, p, size) ==
    IF ~exists(t, ins.x) THEN {Throw(ins, "Undefined source", ins.x, t, h, n)}
    ELSE IF t[ins.x].type # "VT_LIST"
    THEN {Throw(ins, "COPY source is not a list", ins.x, t, h, n)}
    ELSE {Return(p + 1, set(t, ins.y, t[ins.x]), h, n)}

COPY_execute(ins, t, h, n, p, size) ==
    IF ~exists(t, ins.x) THEN {Throw(ins, "Undefined source", ins.x, t, h, n)}
    ELSE IF t[ins.x].type # "VT_LIST"
    THEN {Throw(ins, "COPY source is not a list", ins.x, t, h, n)}
    ELSE LET copy == deep_copy(h, n, t[ins.x])
         IN  {Return(p + 1, set(t, ins.y, copy.v), copy.h, copy.n)}

\* HEAD that binds the first element itself, not a copy of it
HEAD_execute_aliasing(ins, t, h, n, p, size) ==
    IF ~exists(t, ins.x) THEN {Throw(ins, "Undefined list", ins.x, t, h, n)}
    ELSE IF t[ins.x].type # "VT_LIST"
    THEN {Throw(ins, "HEAD target not a list", ins.x, t, h, n)}
    ELSE IF t[ins.x].list = Null
    THEN {Throw(ins, "HEAD on empty list", ins.x, t, h, n)}
    ELSE {Return(p + 1, set(t, ins.y, h[t[ins.x].list].v), h, n)}

\* HEAD that also takes the first element off the list
HEAD_execute_popping(ins, t, h, n, p, size) ==
    IF ~exists(t, ins.x) THEN {Throw(ins, "Undefined list", ins.x, t, h, n)}
    ELSE IF t[ins.x].type # "VT_LIST"
    THEN {Throw(ins, "HEAD target not a list", ins.x, t, h, n)}
    ELSE IF t[ins.x].list = Null
    THEN {Throw(ins, "HEAD on empty list", ins.x, t, h, n)}
    ELSE LET headval == deep_copy(h, n, h[t[ins.x].list].v)
             popped == set(t, ins.x, make_list(h[t[ins.x].list].next))
         IN  {Return(p + 1, set(popped, ins.y, headval.v), headval.h, headval.n)}

HEAD_execute(ins, t, h, n, p, size) ==
    IF ~exists(t, ins.x) THEN {Throw(ins, "Undefined list", ins.x, t, h, n)}
    ELSE IF t[ins.x].type # "VT_LIST"
    THEN {Throw(ins, "HEAD target not a list", ins.x, t, h, n)}
    ELSE IF t[ins.x].list = Null
    THEN {Throw(ins, "HEAD on empty list", ins.x, t, h, n)}
    ELSE LET headval == deep_copy(h, n, h[t[ins.x].list].v)
         IN  {Return(p + 1, set(t, ins.y, headval.v), headval.h, headval.n)}

\* TAIL that binds dst to the nodes of src after the first
TAIL_execute_sharing(ins, t, h, n, p, size) ==
    IF ~exists(t, ins.x) THEN {Throw(ins, "Undefined list", ins.x, t, h, n)}
    ELSE IF t[ins.x].type # "VT_LIST"
    THEN {Throw(ins, "TAIL source not a list", ins.x, t, h, n)}
    ELSE LET head == t[ins.x].list
         IN  IF head = Null
             THEN {Return(p + 1, set(t, ins.y, make_list(Null)), h, n)}
             ELSE {Return(p + 1, set(t, ins.y, make_list(h[head].next)), h, n)}

\* TAIL that refuses the empty list, as HEAD does
TAIL_execute_strict(ins, t, h, n, p, size) ==
    IF ~exists(t, ins.x) THEN {Throw(ins, "Undefined list", ins.x, t, h, n)}
    ELSE IF t[ins.x].type # "VT_LIST"
    THEN {Throw(ins, "TAIL source not a list", ins.x, t, h, n)}
    ELSE LET head == t[ins.x].list
         IN  IF head = Null
             THEN {Throw(ins, "TAIL on empty list", ins.x, t, h, n)}
             ELSE LET c == CopyChain(h, n, h[head].next)
                  IN  {Return(p + 1, set(t, ins.y, make_list(c.head)), c.h, c.n)}

TAIL_execute(ins, t, h, n, p, size) ==
    IF ~exists(t, ins.x) THEN {Throw(ins, "Undefined list", ins.x, t, h, n)}
    ELSE IF t[ins.x].type # "VT_LIST"
    THEN {Throw(ins, "TAIL source not a list", ins.x, t, h, n)}
    ELSE LET head == t[ins.x].list
         IN  IF head = Null
             THEN {Return(p + 1, set(t, ins.y, make_list(Null)), h, n)}
             ELSE LET c == CopyChain(h, n, h[head].next)
                  IN  {Return(p + 1, set(t, ins.y, make_list(c.head)), c.h, c.n)}

\* ASSIGN that binds whatever the name held
ASSIGN_execute_untyped(ins, t, h, n, p, size) ==
    {Return(p + 1, set(t, ins.x, make_int(ins.k)), h, n)}

ASSIGN_execute(ins, t, h, n, p, size) ==
    IF exists(t, ins.x)
    THEN IF t[ins.x].type # "VT_INT"
         THEN {Throw(ins, "ASSIGN to non-int", ins.x, t, h, n)}
         ELSE {Return(p + 1, [t EXCEPT ![ins.x].ival = ins.k], h, n)}
    ELSE {Return(p + 1, set(t, ins.x, make_int(ins.k)), h, n)}

\* the outcomes of a signed long long operation whose exact result is r: r
\* when it is representable; otherwise the behaviour is undefined, and the
\* build either wraps (the usual code) or traps (-ftrapv, a sanitizer)
Signed(r) == IF r \in LLMin..LLMax THEN {[trap |-> FALSE, v |-> r]}
             ELSE {[trap |-> FALSE, v |-> Wrap(r, LLBits)], [trap |-> TRUE, v |-> 0]}

CHS_execute(ins, t, h, n, p, size) ==
    IF ~exists(t, ins.x) THEN {Throw(ins, "CHS undefined id", ins.x, t, h, n)}
    ELSE IF t[ins.x].type # "VT_INT"
    THEN {Throw(ins, "CHS on non-int", ins.x, t, h, n)}
    ELSE {IF r.trap THEN Trap(t, h, n)
          ELSE Return(p + 1, [t EXCEPT ![ins.x].ival = r.v], h, n)
          : r \in Signed(-t[ins.x].ival)}

ADD_execute(ins, t, h, n, p, size) ==
    IF ~exists(t, ins.x) THEN {Throw(ins, "ADD undefined id", ins.x, t, h, n)}
    ELSE IF ~exists(t, ins.y) THEN {Throw(ins, "ADD undefined id", ins.y, t, h, n)}
    ELSE IF t[ins.x].type # "VT_INT" \/ t[ins.y].type # "VT_INT"
    THEN {Throw(ins, "ADD type error", NoId, t, h, n)}
    ELSE {IF r.trap THEN Trap(t, h, n)
          ELSE Return(p + 1, [t EXCEPT ![ins.x].ival = r.v], h, n)
          : r \in Signed(t[ins.x].ival + t[ins.y].ival)}

\* IF that takes a list for false when it is not empty
IF_execute_nonempty(ins, t, h, n, p, size) ==
    IF ~exists(t, ins.x) THEN {Throw(ins, "IF undefined id", ins.x, t, h, n)}
    ELSE LET v == t[ins.x]
             cond == IF v.type = "VT_INT" THEN v.ival = 0 ELSE v.list # Null
         IN  IF cond
             THEN IF ins.k < 1 \/ ins.k > size
                  THEN {Throw(ins, "IF jump out of range", to_string(ins.k), t, h, n)}
                  ELSE {Return(ins.k, t, h, n)}
             ELSE {Return(p + 1, t, h, n)}

\* IF that jumps when the value is not zero, not empty
IF_execute_inverted(ins, t, h, n, p, size) ==
    IF ~exists(t, ins.x) THEN {Throw(ins, "IF undefined id", ins.x, t, h, n)}
    ELSE LET v == t[ins.x]
             cond == IF v.type = "VT_INT" THEN v.ival # 0 ELSE v.list # Null
         IN  IF cond
             THEN IF ins.k < 1 \/ ins.k > size
                  THEN {Throw(ins, "IF jump out of range", to_string(ins.k), t, h, n)}
                  ELSE {Return(ins.k, t, h, n)}
             ELSE {Return(p + 1, t, h, n)}

\* IF that jumps without looking at the range of its target
IF_execute_unchecked(ins, t, h, n, p, size) ==
    IF ~exists(t, ins.x) THEN {Throw(ins, "IF undefined id", ins.x, t, h, n)}
    ELSE LET v == t[ins.x]
             cond == IF v.type = "VT_INT" THEN v.ival = 0 ELSE v.list = Null
         IN  IF cond THEN {Return(ins.k, t, h, n)} ELSE {Return(p + 1, t, h, n)}

IF_execute(ins, t, h, n, p, size) ==
    IF ~exists(t, ins.x) THEN {Throw(ins, "IF undefined id", ins.x, t, h, n)}
    ELSE LET v == t[ins.x]
             cond == IF v.type = "VT_INT" THEN v.ival = 0 ELSE v.list = Null
         IN  IF cond
             THEN IF ins.k < 1 \/ ins.k > size
                  THEN {Throw(ins, "IF jump out of range", to_string(ins.k), t, h, n)}
                  ELSE {Return(ins.k, t, h, n)}
             ELSE {Return(p + 1, t, h, n)}

\* HLT that goes on to the next line
HLT_execute_continuing(ins, t, h, n, p, size) == {Return(p + 1, t, h, n)}

HLT_execute(ins, t, h, n, p, size) == {Return(-1, t, h, n)}

NOP_execute(ins, t, h, n, p, size) == {Return(p + 1, t, h, n)}

\* ins->execute(env, pc, prog): the virtual call
execute(ins, t, h, n, p, size) ==
    CASE ins.op = "INTEGER" -> INTEGER_execute(ins, t, h, n, p, size)
      [] ins.op = "LIST" -> LIST_execute(ins, t, h, n, p, size)
      [] ins.op = "MERGE" -> MERGE_execute(ins, t, h, n, p, size)
      [] ins.op = "COPY" -> COPY_execute(ins, t, h, n, p, size)
      [] ins.op = "HEAD" -> HEAD_execute(ins, t, h, n, p, size)
      [] ins.op = "TAIL" -> TAIL_execute(ins, t, h, n, p, size)
      [] ins.op = "ASSIGN" -> ASSIGN_execute(ins, t, h, n, p, size)
      [] ins.op = "CHS" -> CHS_execute(ins, t, h, n, p, size)
      [] ins.op = "ADD" -> ADD_execute(ins, t, h, n, p, size)
      [] ins.op = "IF" -> IF_execute(ins, t, h, n, p, size)
      [] ins.op = "HLT" -> HLT_execute(ins, t, h, n, p, size)
      [] ins.op = "NOP" -> NOP_execute(ins, t, h, n, p, size)

----------------------------------------------------------------------------
(* Parser *)

OP_INTEGER == <<"I", "N", "T", "E", "G", "E", "R">>
OP_LIST == <<"L", "I", "S", "T">>
OP_MERGE == <<"M", "E", "R", "G", "E">>
OP_COPY == <<"C", "O", "P", "Y">>
OP_HEAD == <<"H", "E", "A", "D">>
OP_TAIL == <<"T", "A", "I", "L">>
OP_ASSIGN == <<"A", "S", "S", "I", "G", "N">>
OP_CHS == <<"C", "H", "S">>
OP_ADD == <<"A", "D", "D">>
OP_IF == <<"I", "F">>
OP_HLT == <<"H", "L", "T">>

is_identifier(s) ==
    /\ s # <<>>
    /\ isalpha(s[1]) \/ s[1] = "_"
    /\ \A i \in DOMAIN s : isalnum(s[i]) \/ s[i] = "_"

RECURSIVE DecimalValue(_)
DecimalValue(ds) ==
    IF ds = <<>> THEN 0
    ELSE 10 * DecimalValue(SubSeq(ds, 1, Len(ds) - 1)) + DigitVal(ds[Len(ds)])

\* to_int_const: [ok, v].  stoll reads an optional sign and the digits that
\* follow; it throws when there is no digit or the number does not fit a long
\* long, and the catch gives ok = false, 0.
to_int_const(s) ==
    LET signed == s # <<>> /\ s[1] \in {"+", "-"}
        body == IF signed THEN Tail(s) ELSE s
        nd == IF \A i \in DOMAIN body : isdigit(body[i]) THEN Len(body)
              ELSE (CHOOSE i \in DOMAIN body :
                        /\ ~isdigit(body[i])
                        /\ \A j \in 1..(i - 1) : isdigit(body[j])) - 1
        mag == DecimalValue(SubSeq(body, 1, nd))
        v == IF signed /\ s[1] = "-" THEN -mag ELSE mag
        idx == nd + (IF signed THEN 1 ELSE 0)
    IN  IF nd = 0 \/ v < LLMin \/ v > LLMax THEN [ok |-> FALSE, v |-> 0]
        ELSE [ok |-> (idx = Len(s)), v |-> v]

Parsed(ins) == [ok |-> TRUE, ins |-> ins, what |-> <<>>]
ParseError(lineno, text, arg) ==
    [ok |-> FALSE, ins |-> <<>>, what |-> [line |-> lineno, text |-> text, arg |-> arg]]

\* parse_line on the tokens t of a line; ins = <<>> is the nullptr of a blank line
parse_line(t, lineno) ==
    IF t = <<>> THEN Parsed(<<>>)
    ELSE LET op == t[1] IN
    CASE op = OP_INTEGER ->
            IF Len(t) # 2 THEN ParseError(lineno, "INTEGER requires exactly one argument", NoId)
            ELSE IF ~is_identifier(t[2]) THEN ParseError(lineno, "invalid identifier", t[2])
            ELSE Parsed(Instr_INTEGER(lineno, t[2]))
      [] op = OP_LIST ->
            IF Len(t) # 2 THEN ParseError(lineno, "LIST requires exactly one argument", NoId)
            ELSE IF ~is_identifier(t[2]) THEN ParseError(lineno, "invalid identifier", t[2])
            ELSE Parsed(Instr_LIST(lineno, t[2]))
      [] op = OP_MERGE ->
            IF Len(t) # 3 THEN ParseError(lineno, "MERGE requires two arguments", NoId)
            ELSE Parsed(Instr_MERGE(lineno, t[2], t[3]))
      [] op = OP_COPY ->
            IF Len(t) # 3 THEN ParseError(lineno, "COPY requires two arguments", NoId)
            ELSE Parsed(Instr_COPY(lineno, t[2], t[3]))
      [] op = OP_HEAD ->
            IF Len(t) # 3 THEN ParseError(lineno, "HEAD requires two arguments", NoId)
            ELSE Parsed(Instr_HEAD(lineno, t[2], t[3]))
      [] op = OP_TAIL ->
            IF Len(t) # 3 THEN ParseError(lineno, "TAIL requires two arguments", NoId)
            ELSE Parsed(Instr_TAIL(lineno, t[2], t[3]))
      [] op = OP_ASSIGN ->
            IF Len(t) # 3 THEN ParseError(lineno, "ASSIGN requires two arguments", NoId)
            ELSE LET c == to_int_const(t[3])
                 IN  IF ~c.ok
                     THEN ParseError(lineno, "ASSIGN needs integer constant, got", t[3])
                     ELSE Parsed(Instr_ASSIGN(lineno, t[2], c.v))
      [] op = OP_CHS ->
            IF Len(t) # 2 THEN ParseError(lineno, "CHS requires one argument", NoId)
            ELSE Parsed(Instr_CHS(lineno, t[2]))
      [] op = OP_ADD ->
            IF Len(t) # 3 THEN ParseError(lineno, "ADD requires two arguments", NoId)
            ELSE Parsed(Instr_ADD(lineno, t[2], t[3]))
      [] op = OP_IF ->
            IF Len(t) # 3 THEN ParseError(lineno, "IF requires two arguments", NoId)
            ELSE LET c == to_int_const(t[3])
                     target == CastInt(c.v)
                 IN  IF ~c.ok \/ target <= 0
                     THEN ParseError(lineno, "IF target must be positive integer", NoId)
                     ELSE Parsed(Instr_IF(lineno, t[2], target))
      [] op = OP_HLT ->
            IF Len(t) # 1 THEN ParseError(lineno, "HLT takes no arguments", NoId)
            ELSE Parsed(Instr_HLT(lineno))
      [] OTHER -> ParseError(lineno, "Unknown operation", op)

----------------------------------------------------------------------------
(* Driver *)

\* main has not returned; <<c>> once it returned c
NoExit == <<>>

\* a sort that puts the names in descending order
RECURSIVE SortNames_descending(_)
SortNames_descending(S) ==
    IF S = {} THEN <<>>
    ELSE LET m == CHOOSE x \in S : \A y \in S \ {x} : StrLess(y, x)
         IN  <<m>> \o SortNames_descending(S \ {m})

\* std::sort(names): the names in ascending order
RECURSIVE SortNames(_)
SortNames(S) ==
    IF S = {} THEN <<>>
    ELSE LET m == CHOOSE x \in S : \A y \in S \ {x} : StrLess(x, y)
         IN  <<m>> \o SortNames(S \ {m})

\* the report of run_program (lines 400-409): one line per name, sorted
Report(t, h) ==
    LET names == SortNames(DOMAIN t)
    IN  [i \in DOMAIN names |->
            names[i] \o <<" ", "=", " ">>
                \o (IF t[names[i]].type = "VT_INT" THEN to_string(t[names[i]].ival)
                    ELSE list_to_string(h, t[names[i]].list))]

\* the rest of one round of run_program's loop once execute gave outcome o:
\* HLT's -1 breaks, another line below 1 ends the while, both print the
\* report; a runtime_error is written to the error stream and run_program
\* returns; a trap kills the process
Outcome(o) ==
    /\ table' = o.table
    /\ heap' = Collect(o.table, o.heap)
    /\ nalloc' = o.nalloc
    /\ CASE o.kind = "return" ->
               /\ pc' = IF o.next = -1 THEN pc ELSE o.next
               /\ status' = IF o.next < 1 THEN "Halted" ELSE "Running"
               /\ cout' = IF o.next < 1 THEN Report(o.table, Collect(o.table, o.heap))
                          ELSE cout
               /\ UNCHANGED <<cerr, exitCode>>
         [] o.kind = "throw" ->
               /\ status' = "Failed"
               /\ cerr' = Append(cerr, [category |-> "Runtime error", what |-> o.what])
               /\ UNCHANGED <<pc, cout, exitCode>>
         [] o.kind = "trap" ->
               /\ status' = "Trapped"
               /\ UNCHANGED <<pc, cout, cerr, exitCode>>
    /\ UNCHANGED <<prog, lines>>

\* one round of the loop of run_program (lines 388-399) that fetches ins
Step(ins) ==
    /\ status = "Running"
    /\ pc >= 1
    /\ pc <= lines
    /\ \E o \in execute(ins, table, heap, nalloc, pc, lines) :
          /\ o.nalloc <= MaxNodes
          /\ Outcome(o)

\* the round that finds pc past the last line (line 389), and the report
FallOffEnd ==
    /\ status = "Running"
    /\ pc >= 1
    /\ pc > lines
    /\ status' = "Halted"
    /\ cout' = Report(table, heap)
    /\ UNCHANGED <<prog, lines, pc, table, heap, nalloc, cerr, exitCode>>

\* main that returns 1 when the run failed
MainReturn_failing ==
    /\ status \in {"Halted", "Failed"}
    /\ exitCode = NoExit
    /\ exitCode' = IF status = "Failed" THEN <<1>> ELSE <<0>>
    /\ UNCHANGED <<prog, lines, status, pc, table, heap, nalloc, cerr, cout>>

\* main after run_program returned (lines 431-432)
MainReturn ==
    /\ status \in {"Halted", "Failed"}
    /\ exitCode = NoExit
    /\ exitCode' = <<0>>
    /\ UNCHANGED <<prog, lines, status, pc, table, heap, nalloc, cerr, cout>>

----------------------------------------------------------------------------
(* Loader *)

T_a == <<"a">>
T_l == <<"l">>
T_2x == <<"2", "x">>

\* the lines a source file is made of
SrcLines ==
    { <<OP_INTEGER, T_a>>,
      <<OP_LIST, T_l>>,
      <<OP_ASSIGN, T_a, <<"1">>>>,
      <<OP_ASSIGN, T_2x, <<"-", "2">>>>,
      <<OP_MERGE, T_a, T_l>>,
      <<OP_MERGE, T_l, T_l>>,
      <<OP_COPY, T_l, T_a>>,
      <<OP_HEAD, T_l, T_a>>,
      <<OP_TAIL, T_l, T_l>>,
      <<OP_CHS, T_a>>,
      <<OP_ADD, T_a, T_a>>,
      <<OP_IF, T_a, <<"1">>>>,
      <<OP_IF, T_a, <<"3">>>>,
      <<OP_IF, T_l, <<"1">>>>,
      <<OP_IF, T_l, <<"3">>>>,
      <<OP_IF, T_a, <<"5">>>>,
      <<OP_IF, T_a, <<"8">>>>,
      <<OP_IF, T_a, <<"1", "7">>>>,
      <<OP_HLT>>,
      <<>>,
      <<OP_INTEGER, T_2x>>,
      <<OP_ASSIGN, T_a, <<"1", "x">>>>,
      <<OP_IF, T_a, <<"0">>>>,
      <<OP_HLT, T_a>>,
      <<<<"F", "O", "O">>>> }

\* one round of the loop of load_program (lines 356-366) on a line that parses,
\* with the NOP a blank line becomes (lines 369-375)
LoadLine(line) ==
    /\ status = "Loading"
    /\ Len(prog) < MaxSrcLines
    /\ LET lineno == Len(prog) + 1
           r == parse_line(line, lineno)
       IN  /\ r.ok
           /\ prog' = Append(prog, IF r.ins = <<>> THEN NOP(lineno) ELSE r.ins)
    /\ UNCHANGED <<lines, status, pc, table, heap, nalloc, cerr, cout, exitCode>>

\* a load that stops at the line that does not parse and runs the lines
\* before it
LoadFail_partial(line) ==
    /\ status = "Loading"
    /\ Len(prog) < MaxSrcLines
    /\ LET r == parse_line(line, Len(prog) + 1)
       IN  /\ ~r.ok
           /\ cerr' = Append(cerr, [category |-> "Error loading program", what |-> r.what])
    /\ status' = "Running"
    /\ pc' = 1
    /\ lines' = Len(prog)
    /\ UNCHANGED <<prog, table, heap, nalloc, cout, exitCode>>

\* the round on a line that does not parse: parse_line throws, load_program
\* is left, main writes the error and returns 1 (lines 423-426)
LoadFail(line) ==
    /\ status = "Loading"
    /\ Len(prog) < MaxSrcLines
    /\ LET r == parse_line(line, Len(prog) + 1)
       IN  /\ ~r.ok
           /\ cerr' = Append(cerr, [category |-> "Error loading program", what |-> r.what])
    /\ prog' = <<>>
    /\ status' = "LoadError"
    /\ exitCode' = <<1>>
    /\ UNCHANGED <<lines, pc, table, heap, nalloc, cout>>

\* the end of the file: load_program returns, main creates the Env and
\* run_program starts (lines 386-387)
LoadDone ==
    /\ status = "Loading"
    /\ status' = "Running"
    /\ pc' = 1
    /\ lines' = Len(prog)
    /\ UNCHANGED <<prog, table, heap, nalloc, cerr, cout, exitCode>>

----------------------------------------------------------------------------
(* The whole process *)

Init ==
    /\ prog = <<>>
    /\ lines = 0
    /\ status = "Loading"
    /\ pc = 0
    /\ table = <<>>
    /\ heap = <<>>
    /\ nalloc = 0
    /\ cerr = <<>>
    /\ cout = <<>>
    /\ exitCode = NoExit

\* the round of run_program's loop on the loaded program
RunStep ==
    /\ status = "Running"
    /\ pc \in DOMAIN prog
    /\ Step(prog[pc])

Next ==
    \/ \E line \in SrcLines : LoadLine(line)
    \/ \E line \in SrcLines : LoadFail(line)
    \/ LoadDone
    \/ RunStep
    \/ FallOffEnd
    \/ MainReturn

Spec == Init /\ [][Next]_vars

----------------------------------------------------------------------------
(* run_program on any program *)

ExecIds == {T_a, T_l}
ExecLiterals == {LLMin, -1, 0, 1, 2, LLMax}
\* the targets of an IF at line p: the lines after p, and one past the end
ExecTargets(p) == {L \in 1..IntMax : L > p /\ L <= lines + 1}

InitExec ==
    /\ prog = <<>>
    /\ lines \in 0..MaxExecLines
    /\ status = "Running"
    /\ pc = 1
    /\ table = <<>>
    /\ heap = <<>>
    /\ nalloc = 0
    /\ cerr = <<>>
    /\ cout = <<>>
    /\ exitCode = NoExit

\* the instructions SpecExec may find at line p
ExecInstrs(p) ==
    {Instr_INTEGER(p, id) : id \in ExecIds}
    \cup {Instr_LIST(p, id) : id \in ExecIds}
    \cup {Instr_MERGE(p, a, b) : a \in ExecIds, b \in ExecIds}
    \cup {Instr_COPY(p, a, b) : a \in ExecIds, b \in ExecIds}
    \cup {Instr_HEAD(p, a, b) : a \in ExecIds, b \in ExecIds}
    \cup {Instr_TAIL(p, a, b) : a \in ExecIds, b \in ExecIds}
    \cup {Instr_ASSIGN(p, id, k) : id \in ExecIds, k \in ExecLiterals}
    \cup {Instr_CHS(p, id) : id \in ExecIds}
    \cup {Instr_ADD(p, a, b) : a \in ExecIds, b \in ExecIds}
    \cup {Instr_IF(p, id, L) : id \in ExecIds, L \in ExecTargets(p)}
    \cup {Instr_HLT(p), NOP(p)}

ExecINTEGER == \E id \in ExecIds : Step(Instr_INTEGER(pc, id))
ExecLIST == \E id \in ExecIds : Step(Instr_LIST(pc, id))
ExecMERGE == \E a, b \in ExecIds : Step(Instr_MERGE(pc, a, b))
ExecCOPY == \E a, b \in ExecIds : Step(Instr_COPY(pc, a, b))
ExecHEAD == \E a, b \in ExecIds : Step(Instr_HEAD(pc, a, b))
ExecTAIL == \E a, b \in ExecIds : Step(Instr_TAIL(pc, a, b))
ExecASSIGN == \E id \in ExecIds, k \in ExecLiterals : Step(Instr_ASSIGN(pc, id, k))
ExecCHS == \E id \in ExecIds : Step(Instr_CHS(pc, id))
ExecADD == \E a, b \in ExecIds : Step(Instr_ADD(pc, a, b))
ExecIF == \E id \in ExecIds, L \in ExecTargets(pc) : Step(Instr_IF(pc, id, L))
ExecHLT == Step(Instr_HLT(pc))
ExecNOP == Step(NOP(pc))

NextExec ==
    \/ ExecINTEGER
    \/ ExecLIST
    \/ ExecMERGE
    \/ ExecCOPY
    \/ ExecHEAD
    \/ ExecTAIL
    \/ ExecASSIGN
    \/ ExecCHS
    \/ ExecADD
    \/ ExecIF
    \/ ExecHLT
    \/ ExecNOP
    \/ FallOffEnd
    \/ MainReturn

SpecExec == InitExec /\ [][NextExec]_vars

----------------------------------------------------------------------------
(* run_program on the countdown loop *)

T_x == <<"x">>
T_m == <<"m">>
T_zero == <<"z", "e", "r", "o">>

\* the source of the countdown from k: zero stays 0, so the IF of line 6
\* always jumps back to the guard of line 4, which leaves the loop for line 7
\* once x is 0; line 7 is an HLT or a blank line (last)
CountdownSource(k, last) ==
    << <<OP_INTEGER, T_zero>>,
       <<OP_ASSIGN, T_x, to_string(k)>>,
       <<OP_ASSIGN, T_m, <<"-", "1">>>>,
       <<OP_IF, T_x, <<"7">>>>,
       <<OP_ADD, T_x, T_m>>,
       <<OP_IF, T_zero, <<"4">>>>,
       last >>

\* load_program on a source whose lines all parse
Load(src) ==
    [i \in DOMAIN src |->
        LET r == parse_line(src[i], i)
        IN  IF r.ins = <<>> THEN NOP(i) ELSE r.ins]

InitCountdown ==
    /\ \E k \in 0..MaxCount, last \in {<<OP_HLT>>, <<>>} :
          prog = Load(CountdownSource(k, last))
    /\ lines = Len(prog)
    /\ status = "Running"
    /\ pc = 1
    /\ table = <<>>
    /\ heap = <<>>
    /\ nalloc = 0
    /\ cerr = <<>>
    /\ cout = <<>>
    /\ exitCode = NoExit

NextCountdown ==
    \/ RunStep
    \/ FallOffEnd
    \/ MainReturn

\* the process is sequential and runs on by itself: a step that can be taken
\* is taken
SpecCountdown == InitCountdown /\ [][NextCountdown]_vars /\ WF_vars(NextCountdown)

----------------------------------------------------------------------------
(* Properties *)

Running == status = "Running"
Failed == status = "Failed"
Halted == status = "Halted"

\* the diagnostic the last failure wrote
LastError == cerr[Len(cerr)]

\* a step wrote exactly one runtime diagnostic, for line l, with this text
RaisedAt(l, text) ==
    /\ status' = "Failed"
    /\ Len(cerr') = Len(cerr) + 1
    /\ cerr'[Len(cerr')].category = "Runtime error"
    /\ cerr'[Len(cerr')].what.line = l
    /\ cerr'[Len(cerr')].what.text = text

\* a step left the environment as it was
EnvUnchanged == table' = table /\ heap' = heap /\ nalloc' = nalloc

\* a step advanced to the next line
Advanced == status' = "Running" /\ pc' = pc + 1

IsList(t, id) == id \in DOMAIN t /\ t[id].type = "VT_LIST"
IsInt(t, id) == id \in DOMAIN t /\ t[id].type = "VT_INT"

\* the rendering of the binding of id
Shown(t, h, id) == value_to_string(h, t[id])

\* MERGE a b from a state that meets its precondition: dst is rebound to a new
\* head that holds src's value and is linked to the very nodes of the old
\* chain, which are as they were
MergePrepends(a, b) ==
    /\ Advanced
    /\ IsList(table', b)
    /\ table'[b].list \notin DOMAIN heap
    /\ table'[b].list \in DOMAIN heap'
    /\ value_to_string(heap', heap'[table'[b].list].v) = Shown(table, heap, a)
    /\ heap'[table'[b].list].v.type = table[a].type
    /\ heap'[table'[b].list].next = table[b].list
    /\ \A n \in ChainNodes(heap, table[b].list) : n \in DOMAIN heap' /\ heap'[n] = heap[n]
    /\ \A x \in DOMAIN table \ {a, b} : table'[x] = table[x]

\* C1 as stated: MERGE src dst, src declared and dst a declared list, prepends
\* a copy of src's value to dst, sharing dst's previous chain, advances pc, and
\* leaves the binding of src unchanged (whatever src and dst are)
C1_MergeSrcUnchanged ==
    [][\A a \in ExecIds, b \in ExecIds :
          (a \in DOMAIN table /\ IsList(table, b) /\ Step(Instr_MERGE(pc, a, b)))
              => (MergePrepends(a, b) /\ table'[a] = table[a])]_vars

\* C1 amended: MERGE src dst, src declared and dst a declared list, prepends a
\* copy of src's value to dst, sharing dst's previous chain node for node,
\* and advances pc; the binding of src is unchanged when src is another name
\* than dst (MERGE l l rebinds l, its old chain being the tail of the new one)
C1_MergePrepends ==
    [][\A a \in ExecIds, b \in ExecIds :
          (a \in DOMAIN table /\ IsList(table, b) /\ Step(Instr_MERGE(pc, a, b)))
              => (MergePrepends(a, b) /\ (a # b => table'[a] = table[a]))]_vars

\* C1 witness: l = [2, 1] with a = 2, the list of two MERGE a l around a change of a
C1_Witness ==
    /\ Running
    /\ IsList(table, T_l) /\ IsInt(table, T_a)
    /\ table[T_a].ival = 2
    /\ Shown(table, heap, T_l) = <<"[", "2", ",", " ", "1", "]">>

----------------------------------------------------------------------------
\* the operand an instruction writes: dst of MERGE, COPY, TAIL, id of HEAD,
\* INTEGER, LIST, ASSIGN, CHS, a of ADD; none for IF, HLT and a blank line
Destination(ins) ==
    IF ins.op \in {"MERGE", "COPY", "TAIL", "HEAD"} THEN ins.y
    ELSE IF ins.op \in {"INTEGER", "LIST", "ASSIGN", "CHS", "ADD"} THEN ins.x
    ELSE NoId

\* a step left every binding but that of dst as it rendered, and made none
OnlyChanges(dst) ==
    \A x \in (DOMAIN table \cup DOMAIN table') \ {dst} :
        /\ x \in DOMAIN table
        /\ x \in DOMAIN table'
        /\ table'[x].type = table[x].type
        /\ Shown(table', heap', x) = Shown(table, heap, x)

\* C2: executing an instruction changes the rendered value of no identifier
\* but its destination operand; IF, HLT and blank lines change no binding,
\* and nothing changes once the run has ended
C2_FrameOfInstructions ==
    [][/\ \A ins \in ExecInstrs(pc) : Step(ins) => OnlyChanges(Destination(ins))
       /\ ~Running => OnlyChanges(NoId)]_vars

\* C2 witness: l holds the copy of a made when a was 1, and a is 2 since
C2_Witness ==
    /\ Running
    /\ DOMAIN table = {T_a, T_l}
    /\ table[T_a] = make_int(2)
    /\ Shown(table, heap, T_l) = <<"[", "1", "]">>

----------------------------------------------------------------------------
\* Int(0) or the empty list
Falsy(v) == v = make_int(0) \/ v = make_list(Null)

\* the loaded program is at an IF whose identifier is declared
AtDeclaredIF ==
    /\ Running
    /\ pc \in DOMAIN prog
    /\ prog[pc].op = "IF"
    /\ prog[pc].x \in DOMAIN table

\* C3: IF id L, id declared and 1 <= L <= program length, sets pc to L exactly
\* when id is Int(0) or the empty list and to pc + 1 otherwise, and never
\* changes the environment
C3_IfJumpsWhenFalsy ==
    [][(AtDeclaredIF /\ prog[pc].k \in 1..Len(prog) /\ RunStep)
          => /\ EnvUnchanged
             /\ status' = "Running"
             /\ cerr' = cerr
             /\ pc' = IF Falsy(table[prog[pc].x]) THEN prog[pc].k ELSE pc + 1]_vars

\* C3 witness: the run is back at line 1 of a three-line program, after the
\* IF of line 3 jumped on the empty list l
C3_Witness ==
    /\ Running
    /\ pc = 1
    /\ Len(prog) = 3
    /\ prog[3] = Instr_IF(3, T_l, 1)
    /\ DOMAIN table = {T_l}
    /\ table[T_l] = make_list(Null)

\* C4 as stated: IF id L, id declared and L outside [1, program length], is a
\* runtime error that fails the run whatever the value of id
C4_OutOfRangeAlwaysFails ==
    [][(AtDeclaredIF /\ prog[pc].k \notin 1..Len(prog) /\ RunStep)
          => RaisedAt(prog[pc].lineNo, "IF jump out of range")]_vars

\* C4 amended: IF id L, id declared and L outside [1, program length], is a
\* runtime error (jump out of range) that fails the run exactly when id is
\* Int(0) or the empty list; for any other value the target is not looked
\* at and control falls through to pc + 1 without an error
C4_OutOfRangeFailsWhenFalsy ==
    [][(AtDeclaredIF /\ prog[pc].k \notin 1..Len(prog) /\ RunStep)
          => /\ EnvUnchanged
             /\ IF Falsy(table[prog[pc].x])
                THEN RaisedAt(prog[pc].lineNo, "IF jump out of range") /\ pc' = pc
                ELSE Advanced /\ cerr' = cerr]_vars

\* C4 witness: INTEGER a / IF a 3 failed at line 2 on the target 3
C4_Witness ==
    /\ Failed
    /\ Len(prog) = 2
    /\ prog[2] = Instr_IF(2, T_a, 3)
    /\ T_a \in DOMAIN table
    /\ table[T_a] = make_int(0)
    /\ LastError.what = [line |-> 2, text |-> "IF jump out of range", arg |-> <<"3">>]

\* the instruction ins raises a runtime error in the current state
Raises(ins) ==
    \E o \in execute(ins, table, heap, nalloc, pc, lines) : o.kind = "throw"

\* C5: when an instruction raises a runtime error the run fails at once with
\* one diagnostic that carries the line of the instruction; after that no
\* instruction executes, nothing is ever written to standard output, and the
\* only step left is main returning 0
C5_RuntimeErrorStopsRun ==
    [][/\ (Running /\ pc \in DOMAIN prog /\ Raises(prog[pc]) /\ RunStep)
            => /\ status' = "Failed"
               /\ Len(cerr') = 1
               /\ cerr'[1].category = "Runtime error"
               /\ cerr'[1].what.line = pc
               /\ cout' = <<>>
               /\ exitCode' = NoExit
               /\ EnvUnchanged
       /\ Failed
            => /\ status' = "Failed"
               /\ exitCode = NoExit
               /\ exitCode' = <<0>>
               /\ cout' = <<>>
               /\ cerr' = cerr
               /\ pc' = pc
               /\ EnvUnchanged]_vars

\* C5 witness: LIST l / INTEGER a / HEAD l a has failed at line 3, written
\* nothing to standard output, and main returned 0
C5_Witness ==
    /\ Failed
    /\ exitCode = <<0>>
    /\ cout = <<>>
    /\ prog = <<Instr_LIST(1, T_l), Instr_INTEGER(2, T_a), Instr_HEAD(3, T_l, T_a)>>
    /\ cerr = <<[category |-> "Runtime error",
                 what |-> [line |-> 3, text |-> "HEAD on empty list", arg |-> T_l]]>>

----------------------------------------------------------------------------
\* a step ended the load on line n: one load diagnostic for that line, exit
\* code 1, and nothing was or will be executed or printed
LoadAborted(n) ==
    /\ status' = "LoadError"
    /\ exitCode' = <<1>>
    /\ Len(cerr') = 1
    /\ cerr'[1].category = "Error loading program"
    /\ cerr'[1].what.line = n
    /\ cout' = <<>>
    /\ table' = <<>>
    /\ heap' = <<>>
    /\ pc' = 0

\* C6: the first line that does not parse ends the load: the process is left
\* with exit code 1 and a diagnostic for that line, no instruction has been or
\* is ever executed (execution starts only after the whole file is loaded),
\* and no report is printed
C6_ParseErrorAbortsLoad ==
    [][/\ \A line \in SrcLines :
            (/\ status = "Loading"
             /\ ~parse_line(line, Len(prog) + 1).ok
             /\ LoadLine(line) \/ LoadFail(line))
                => LoadAborted(Len(prog) + 1)
       /\ status = "Loading" => (pc = 0 /\ table = <<>> /\ cout = <<>>)
       /\ status # "LoadError"]_vars

\* C6 witness: the load failed on line 3, after two lines that parsed
C6_Witness ==
    /\ status = "LoadError"
    /\ exitCode = <<1>>
    /\ cout = <<>>
    /\ table = <<>>
    /\ Len(cerr) = 1
    /\ cerr[1].what.line = 3

\* the identifier operands of an instruction
Operands(ins) == {ins.x, ins.y} \ {NoId}

\* C7: every identifier operand of every loaded instruction is a valid name,
\* and so is every name bound in the environment
C7_OnlyValidIdentifiers ==
    /\ \A i \in DOMAIN prog : \A id \in Operands(prog[i]) : is_identifier(id)
    /\ \A id \in DOMAIN table : is_identifier(id)

----------------------------------------------------------------------------
\* a step bound id to v, left every other binding and the nodes, and advanced
Binds(id, v) ==
    /\ Advanced
    /\ DOMAIN table' = DOMAIN table \cup {id}
    /\ table'[id] = v
    /\ \A x \in DOMAIN table \ {id} : table'[x] = table[x]
    /\ cerr' = cerr

\* a declaration of id with the value v: refused when id is bound, else bound
Declares(id, v) ==
    IF id \in DOMAIN table
    THEN RaisedAt(pc, "Identifier already declared") /\ EnvUnchanged
    ELSE Binds(id, v) /\ heap' = heap

\* C8: INTEGER id and LIST id fail (already declared) exactly when id is
\* bound, however it was bound and whatever its type; otherwise they bind id
\* to Int(0), respectively the empty list, and advance pc by one
C8_DeclareOnce ==
    [][\A id \in ExecIds :
          /\ Step(Instr_INTEGER(pc, id)) => Declares(id, make_int(0))
          /\ Step(Instr_LIST(pc, id)) => Declares(id, make_list(Null))]_vars

\* C8 witness: a declaration of a failed at line 3 while a was bound to a list
C8_Witness ==
    /\ Failed
    /\ pc = 3
    /\ LastError.what = [line |-> 3, text |-> "Identifier already declared", arg |-> T_a]
    /\ IsList(table, T_a)

\* C9: ASSIGN id k binds id to Int(k) when id is unbound or an Int, for every
\* literal k; when id is a list it fails (type mismatch) and id is still
\* that list
C9_AssignSetsInt ==
    [][\A id \in ExecIds, k \in ExecLiterals :
          Step(Instr_ASSIGN(pc, id, k))
              => IF IsList(table, id)
                 THEN RaisedAt(pc, "ASSIGN to non-int") /\ EnvUnchanged
                 ELSE Binds(id, make_int(k)) /\ heap' = heap]_vars

\* C9 witness: after ASSIGN a <least long long> and ASSIGN l <greatest>, with
\* neither bound before
C9_Witness ==
    /\ Running
    /\ pc = 3
    /\ DOMAIN table = {T_a, T_l}
    /\ table[T_a] = make_int(LLMin)
    /\ table[T_l] = make_int(LLMax)

\* HEAD lst id from a state where lst is a list: on a list that is not empty
\* id is bound to a copy of the first element, made of new nodes; on the
\* empty list the step fails and changes nothing
HeadCopies(lst, id) ==
    IF table[lst].list = Null
    THEN RaisedAt(pc, "HEAD on empty list") /\ EnvUnchanged
    ELSE /\ Advanced
         /\ cerr' = cerr
         /\ DOMAIN table' = DOMAIN table \cup {id}
         /\ table'[id].type = heap[table[lst].list].v.type
         /\ value_to_string(heap', table'[id])
               = value_to_string(heap, heap[table[lst].list].v)
         /\ ValueNodes(heap', table'[id]) \cap DOMAIN heap = {}
         /\ \A x \in DOMAIN table \ {lst, id} : table'[x] = table[x]

\* a step left the binding of lst and the nodes of its list as they were
ListUntouched(lst) ==
    /\ table'[lst] = table[lst]
    /\ \A n \in ValueNodes(heap, table[lst]) : n \in DOMAIN heap' /\ heap'[n] = heap[n]

\* C10 as stated: HEAD list id binds id to a copy of the first element of a
\* list that is not empty, whatever id was, and leaves list unchanged,
\* whether id and list are the same name or not; on the empty list it fails
\* and id is not created or changed
C10_HeadListUnchanged ==
    [][\A lst \in ExecIds, id \in ExecIds :
          (IsList(table, lst) /\ Step(Instr_HEAD(pc, lst, id)))
              => /\ HeadCopies(lst, id)
                 /\ ListUntouched(lst)]_vars

\* C10 amended: HEAD list id binds id to a copy of the first element of a
\* list that is not empty, whatever id was; list is unchanged when id is
\* another name, and HEAD l l rebinds l to the copy of its own first element;
\* on the empty list it fails and id is not created or changed
C10_HeadCopiesFirst ==
    [][\A lst \in ExecIds, id \in ExecIds :
          (IsList(table, lst) /\ Step(Instr_HEAD(pc, lst, id)))
              => /\ HeadCopies(lst, id)
                 /\ (id # lst \/ table[lst].list = Null) => ListUntouched(lst)]_vars

\* C10 witness: a holds a copy, of nodes of its own, of the first element of
\* l, itself a list with an element, and l is as it was: [[[]], []]
C10_Witness ==
    /\ Running
    /\ pc = 6
    /\ IsList(table, T_a) /\ IsList(table, T_l)
    /\ Shown(table, heap, T_l) = <<"[", "[", "[", "]", "]", ",", " ", "[", "]", "]">>
    /\ Shown(table, heap, T_a) = <<"[", "[", "]", "]">>
    /\ ValueNodes(heap, table[T_a]) \cap ValueNodes(heap, table[T_l]) = {}

----------------------------------------------------------------------------
\* the elements of the chain from node cur on, in order: the type and the
\* rendering of each
RECURSIVE Elements(_, _)
Elements(h, cur) ==
    IF cur = Null THEN <<>>
    ELSE <<[type |-> h[cur].v.type, shown |-> value_to_string(h, h[cur].v)]>>
             \o Elements(h, h[cur].next)

\* TAIL src dst from a state where src is a list: the step advances and binds
\* dst to a list of new nodes whose elements are those of src after the
\* first, in order (none when src has none or one); every other binding is
\* as it was
TailCopies(src, dst) ==
    /\ Advanced
    /\ cerr' = cerr
    /\ DOMAIN table' = DOMAIN table \cup {dst}
    /\ IsList(table', dst)
    /\ ValueNodes(heap', table'[dst]) \cap DOMAIN heap = {}
    /\ LET old == Elements(heap, table[src].list)
           new == Elements(heap', table'[dst].list)
       IN  /\ Len(new) = IF Len(old) = 0 THEN 0 ELSE Len(old) - 1
           /\ \A i \in DOMAIN new : new[i] = old[i + 1]
    /\ \A x \in DOMAIN table \ {dst} : table'[x] = table[x]

\* C11: TAIL src dst, src a list of n elements, binds dst to a list of
\* max(n - 1, 0) elements equal, in order, to those of src after the first,
\* without error also when src is empty or has one element; dst is created
\* or overwritten whatever it was, and src is unchanged when dst is another
\* name
C11_TailCopiesRest ==
    [][\A src \in ExecIds, dst \in ExecIds :
          (IsList(table, src) /\ Step(Instr_TAIL(pc, src, dst)))
              => /\ TailCopies(src, dst)
                 /\ src # dst => ListUntouched(src)]_vars

\* C11 witness: LIST l / MERGE l l / ASSIGN a 1 / MERGE a l / TAIL l a: the
\* Int a has become [[]], the elements of l = [1, []] after the first
C11_Witness ==
    /\ Running
    /\ pc = 6
    /\ IsList(table, T_a) /\ IsList(table, T_l)
    /\ Shown(table, heap, T_l) = <<"[", "1", ",", " ", "[", "]", "]">>
    /\ Shown(table, heap, T_a) = <<"[", "[", "]", "]">>

----------------------------------------------------------------------------
\* COPY src dst from a state where src is a list: the step advances and binds
\* dst to a list that renders as src did, element for element, and is made
\* of nodes that did not exist before, at every depth; every other binding
\* is as it was
CopyCopies(src, dst) ==
    /\ Advanced
    /\ cerr' = cerr
    /\ DOMAIN table' = DOMAIN table \cup {dst}
    /\ IsList(table', dst)
    /\ Shown(table', heap', dst) = Shown(table, heap, src)
    /\ Elements(heap', table'[dst].list) = Elements(heap, table[src].list)
    /\ ValueNodes(heap', table'[dst]) \cap DOMAIN heap = {}
    /\ Cardinality(ValueNodes(heap', table'[dst]))
          = Cardinality(ValueNodes(heap, table[src]))
    /\ \A x \in DOMAIN table \ {dst} : table'[x] = table[x]

\* C12: COPY src dst, src a list, binds dst (created or overwritten whatever
\* it was) to a list that renders as src, nested lists included, and shares
\* no node with the list of src, which is unchanged when dst is another
\* name; COPY fails with an undefined-source error when src is unbound and
\* with a not-a-list error when src is an Int, and then dst is as it was
C12_CopyIsDeep ==
    [][\A src \in ExecIds, dst \in ExecIds :
          Step(Instr_COPY(pc, src, dst))
              => IF src \notin DOMAIN table
                 THEN RaisedAt(pc, "Undefined source") /\ EnvUnchanged
                 ELSE IF IsInt(table, src)
                 THEN RaisedAt(pc, "COPY source is not a list") /\ EnvUnchanged
                 ELSE /\ CopyCopies(src, dst)
                      /\ src # dst
                           => /\ ListUntouched(src)
                              /\ ValueNodes(heap', table'[dst])
                                    \cap ValueNodes(heap', table'[src]) = {}]_vars

\* C12 witness: LIST a / LIST l / MERGE l a / MERGE a l / COPY l a: the list
\* a = [[]] has become a copy of l = [[[]]], two levels of nesting on nodes
\* of its own
C12_Witness ==
    /\ Running
    /\ pc = 6
    /\ IsList(table, T_a) /\ IsList(table, T_l)
    /\ Shown(table, heap, T_l) = <<"[", "[", "[", "]", "]", "]">>
    /\ Shown(table, heap, T_a) = Shown(table, heap, T_l)
    /\ Cardinality(ValueNodes(heap, table[T_a])) = 2
    /\ ValueNodes(heap, table[T_a]) \cap ValueNodes(heap, table[T_l]) = {}

----------------------------------------------------------------------------
\* C13: ADD a b, a and b Ints, sets a to a + b reduced to the range of long
\* long by two's-complement wraparound, for every pair of values, those
\* whose sum overflows included, and advances; b is unchanged when it is
\* another name, and ADD a a doubles a; if an operand is unbound or a list
\* the instruction fails and no value changes
C13_AddWraps ==
    [][\A a \in ExecIds, b \in ExecIds :
          Step(Instr_ADD(pc, a, b))
              => IF IsInt(table, a) /\ IsInt(table, b)
                 THEN /\ Binds(a, make_int(Wrap(table[a].ival + table[b].ival, LLBits)))
                      /\ heap' = heap
                 ELSE status' = "Failed" /\ EnvUnchanged]_vars

----------------------------------------------------------------------------
\* the line of the report for the binding of id
ReportLine(t, h, id) == id \o <<" ", "=", " ">> \o Shown(t, h, id)

\* C14: once the run is Halted, standard output holds exactly one line for
\* each identifier bound in the environment, however it was bound, showing
\* its name and its current value, and the lines are in ascending
\* lexicographic order of name
C14_ReportListsBindings ==
    Halted =>
        /\ Len(cout) = Cardinality(DOMAIN table)
        /\ \A id \in DOMAIN table :
              \E i \in DOMAIN cout : cout[i] = ReportLine(table, heap, id)
        /\ \A i \in DOMAIN cout, j \in DOMAIN cout :
              i < j => \E x \in DOMAIN table, y \in DOMAIN table :
                          /\ cout[i] = ReportLine(table, heap, x)
                          /\ cout[j] = ReportLine(table, heap, y)
                          /\ StrLess(x, y)

\* C14 witness: ASSIGN a 2 / ASSIGN l 1 / ADD a l / HLT has halted at line 4
\* and reported a = 3 then l = 1, neither name having been declared
C14_Witness ==
    /\ Halted
    /\ pc = 4
    /\ lines = 4
    /\ cout = << <<"a", " ", "=", " ", "3">>, <<"l", " ", "=", " ", "1">> >>

----------------------------------------------------------------------------
\* the loaded program is at an HLT
AtHLT == Running /\ pc \in DOMAIN prog /\ prog[pc].op = "HLT"

\* the run is over: no instruction executes, and nothing but main's return
\* happens
Terminal ==
    /\ status' = status
    /\ pc' = pc
    /\ EnvUnchanged
    /\ cout' = cout
    /\ cerr' = cerr
    /\ prog' = prog

\* C15: the driver.  Execution starts Running at line 1 with an empty
\* environment; the pc of a Running driver is a line of the program or, once
\* it advanced past the last line, program length + 1, and an instruction is
\* fetched only at a line of the program; the driver becomes Halted exactly
\* when an HLT executes or the pc is program length + 1, and Failed exactly
\* when the instruction at pc raises a runtime error; Halted and Failed are
\* terminal; the empty program halts at once with an empty report
C15_DriverStateMachine ==
    [][/\ (status = "Loading" /\ status' = "Running")
            => (pc' = 1 /\ table' = <<>> /\ lines' = Len(prog))
       /\ status' = "Running" => pc' \in 1..(lines' + 1)
       /\ (Running /\ pc <= lines) => (pc >= 1 /\ RunStep)
       /\ (Running /\ pc > lines) => (status' = "Halted" /\ EnvUnchanged /\ pc' = pc)
       /\ Running => (status' = "Halted" <=> (AtHLT \/ pc = lines + 1))
       /\ Running => (status' = "Failed" <=> (pc \in DOMAIN prog /\ Raises(prog[pc])))
       /\ status' \in {"Halted", "Failed"} => status \in {"Running", status'}
       /\ status \in {"Halted", "Failed"} => Terminal
       /\ (Running /\ lines = 0) => (status' = "Halted" /\ cout' = <<>>)]_vars

\* C15 witness: a three-line program halted by the HLT of its line 2, with
\* one name in the report
C15_Witness ==
    /\ Halted
    /\ Len(prog) = 3
    /\ pc = 2
    /\ prog[2] = Instr_HLT(2)
    /\ Len(cout) = 1

----------------------------------------------------------------------------
\* C16: the countdown loop (back-jump on an always-zero variable, exit guard
\* IF x, ADD x m with m = -1) eventually is Halted with x = 0, from every
\* starting value of x from 0 to MaxCount, and is never Failed
C16_CountdownHalts ==
    /\ <>(Halted /\ T_x \in DOMAIN table /\ table[T_x] = make_int(0))
    /\ [](status # "Failed")

\* C16 witness: the countdown from 3 that ends on an HLT is Halted with x = 0
\* and reported m, x and zero
C16_Witness ==
    /\ Halted
    /\ prog[2] = Instr_ASSIGN(2, T_x, 3)
    /\ prog[7] = Instr_HLT(7)
    /\ table[T_x] = make_int(0)
    /\ Len(cout) = 3

----------------------------------------------------------------------------
\* C17: list nodes are immutable: every step leaves the value and the next
\* link of every node that existed before it and still exists as they were
\* (a node is never given the identity of an earlier one), and ASSIGN, CHS
\* and ADD change no node at all, only a binding of the environment
C17_NodesImmutable ==
    [][/\ \A n \in DOMAIN heap \cap DOMAIN heap' : heap'[n] = heap[n]
       /\ \A n \in DOMAIN heap' \ DOMAIN heap : n > nalloc
       /\ heap' # heap =>
             \A a \in ExecIds, b \in ExecIds, k \in ExecLiterals :
                 /\ ~Step(Instr_ASSIGN(pc, a, k))
                 /\ ~Step(Instr_CHS(pc, a))
                 /\ ~Step(Instr_ADD(pc, a, b))]_vars

\* C17 witness: ASSIGN a -1 / LIST l / MERGE a l / CHS a: the node of l
\* still holds -1 now that a is 1
C17_Witness ==
    /\ Running
    /\ pc = 5
    /\ DOMAIN table = {T_a, T_l}
    /\ table[T_a] = make_int(1)
    /\ IsList(table, T_l)
    /\ table[T_l].list # Null
    /\ heap[table[T_l].list] = ListNode(make_int(-1), Null)

----------------------------------------------------------------------------
\* the places that point to node n: the bindings, the next links and the
\* lists held by nodes
Referrers(t, h, n) ==
    {<<"binding", id>> : id \in {x \in DOMAIN t : t[x].type = "VT_LIST" /\ t[x].list = n}}
    \cup {<<"next", m>> : m \in {x \in DOMAIN h : h[x].next = n}}
    \cup {<<"element", m>> : m \in {x \in DOMAIN h : h[x].v.type = "VT_LIST" /\ h[x].v.list = n}}

\* C18: every list reachable from the environment is finite and acyclic:
\* every link leads to a node that exists or is null, no node is reached
\* from itself through next links and nested lists, and no node is reached
\* along two paths, so a walk from a binding never comes to a node twice
C18_ListsAcyclic ==
    /\ \A id \in DOMAIN table : ValueNodes(heap, table[id]) \subseteq DOMAIN heap
    /\ \A n \in DOMAIN heap :
          /\ Succ(heap, n) \subseteq DOMAIN heap
          /\ n \notin Reach(heap, Succ(heap, n))
          /\ Cardinality(Referrers(table, heap, n)) = 1

\* C18 witness: l is the only name and holds [[[]], []], built by
\* instructions whose two operands are both l
C18_Witness ==
    /\ Running
    /\ DOMAIN table = {T_l}
    /\ IsList(table, T_l)
    /\ Shown(table, heap, T_l) = <<"[", "[", "[", "]", "]", ",", " ", "[", "]", "]">>
    /\ Cardinality(DOMAIN heap) = 3

----------------------------------------------------------------------------
\* no node is reached from two different identifiers
NoAlias ==
    \A x \in DOMAIN table, y \in DOMAIN table :
        x # y => ValueNodes(heap, table[x]) \cap ValueNodes(heap, table[y]) = {}

\* the nodes of the new binding of dst that existed before the step
Kept(dst) == ValueNodes(heap', table'[dst]) \cap DOMAIN heap

\* C19: no cross-variable aliasing: in every state the nodes reached from two
\* different identifiers are disjoint; and a step that rebinds a name to a
\* list reuses nodes only in MERGE, where the nodes kept are exactly those
\* of the previous chain of the same variable: COPY, HEAD and TAIL bind
\* nothing but new nodes
C19_NoAliasing ==
    /\ []NoAlias
    /\ [][\A a \in ExecIds, b \in ExecIds :
             /\ (status' = "Running" /\ Step(Instr_MERGE(pc, a, b)))
                   => Kept(b) = ValueNodes(heap, table[b])
             /\ (status' = "Running" /\ Step(Instr_COPY(pc, a, b))) => Kept(b) = {}
             /\ (status' = "Running" /\ Step(Instr_HEAD(pc, a, b))) => Kept(b) = {}
             /\ (status' = "Running" /\ Step(Instr_TAIL(pc, a, b))) => Kept(b) = {}]_vars

\* C19 witness: LIST a / LIST l / MERGE a l / MERGE l a: a = [[[]]] and
\* l = [[]] each hold a copy of what the other was, on nodes of their own
C19_Witness ==
    /\ Running
    /\ pc = 5
    /\ IsList(table, T_a) /\ IsList(table, T_l)
    /\ Shown(table, heap, T_a) = <<"[", "[", "[", "]", "]", "]">>
    /\ Shown(table, heap, T_l) = <<"[", "[", "]", "]">>
    /\ Cardinality(ValueNodes(heap, table[T_a]) \cup ValueNodes(heap, table[T_l])) = 3

----------------------------------------------------------------------------
\* the token is a base-10 integer literal: digits after an optional sign
IsDecimal(s) ==
    LET body == IF s # <<>> /\ s[1] \in {"+", "-"} THEN Tail(s) ELSE s
    IN  body # <<>> /\ \A i \in DOMAIN body : isdigit(body[i])

\* the number a base-10 literal denotes
LiteralValue(s) ==
    IF s[1] = "-" THEN -DecimalValue(Tail(s))
    ELSE IF s[1] = "+" THEN DecimalValue(Tail(s))
    ELSE DecimalValue(s)

\* C20: the parser accepts IF id L exactly when L is a base-10 integer
\* literal (of the range of long long) that is strictly positive, and the
\* target stored in the instruction is the number L denotes, also when that
\* number is beyond the range of int
C20_IfTargetIsLiteral ==
    [][\A line \in SrcLines :
          (/\ status = "Loading"
           /\ Len(line) = 3
           /\ line[1] = OP_IF
           /\ LoadLine(line) \/ LoadFail(line))
              => IF /\ IsDecimal(line[3])
                    /\ LiteralValue(line[3]) \in 1..LLMax
                 THEN prog' = Append(prog, Instr_IF(Len(prog) + 1, line[2],
                                                    LiteralValue(line[3])))
                 ELSE status' = "LoadError"]_vars

====
